---- MODULE Spec2Model ----
(***************************************************************************)
(* Binary search tree helpers of src/src/Customlib/BST.js (Node, insert,   *)
(* min, count, inOrder, preOrder, postOrder) and the caller loop of the    *)
(* demo component (root = null; root = insert(root, key)).                 *)
(*                                                                         *)
(* The JavaScript heap is a sequence of Node objects; a reference is the   *)
(* index of the object in the heap, Null is the null reference.  Every     *)
(* function of the module is an operator that takes the heap and returns   *)
(* the heap it leaves behind together with its return value, the keys it   *)
(* wrote with console.log and the fault it raised, if any.                 *)
(***************************************************************************)
EXTENDS Integers, Sequences, FiniteSets, TLC

\* ---- bounds of the model ----
MaxNodes == 5
MaxKey == 3
MaxShared == 3

Keys == 1..MaxKey

\* root references: caller 1 is the demo component; in SpecTwo a second
\* caller with a root of its own builds a tree in the same heap
Trees == {1, 2}
Callers == {1}

\* ---- JavaScript values ----
Null == 0
Undefined == -1

NullV == [type |-> "null"]
UndefV == [type |-> "undefined"]
Num(n) == [type |-> "number", val |-> n]
Ref(n) == IF n = Null THEN NullV ELSE IF n = Undefined THEN UndefV ELSE [type |-> "object", ref |-> n]

VARIABLES heap, root, inserted, lastOp, lastTree, ret, out, fault

vars == <<heap, root, inserted, lastOp, lastTree, ret, out, fault>>

\* ---- mutants: the faults the claims are tested against ----
\* the constructor forgets this.data = data
Node_noData(data) == [left |-> Null, right |-> Null, data |-> Undefined]

\* ---- class Node ----
Node(data) == [left |-> Null, right |-> Null, data |-> data]

\* the comparison is turned round: larger keys go left
RECURSIVE insert_flipped(_, _, _)
insert_flipped(h, node, data) ==
  IF node = Null \/ node = Undefined
  THEN [heap |-> Append(h, Node(data)), ret |-> Len(h) + 1]
  ELSE IF data >= h[node].data
       THEN LET r == insert_flipped(h, h[node].left, data)
            IN [heap |-> [r.heap EXCEPT ![node].left = r.ret], ret |-> node]
       ELSE LET r == insert_flipped(h, h[node].right, data)
            IN [heap |-> [r.heap EXCEPT ![node].right = r.ret], ret |-> node]

\* < instead of <=: equal keys go right
RECURSIVE insert_strict(_, _, _)
insert_strict(h, node, data) ==
  IF node = Null \/ node = Undefined
  THEN [heap |-> Append(h, Node(data)), ret |-> Len(h) + 1]
  ELSE IF data < h[node].data
       THEN LET r == insert_strict(h, h[node].left, data)
            IN [heap |-> [r.heap EXCEPT ![node].left = r.ret], ret |-> node]
       ELSE LET r == insert_strict(h, h[node].right, data)
            IN [heap |-> [r.heap EXCEPT ![node].right = r.ret], ret |-> node]

\* the result of the recursive call is returned instead of node
RECURSIVE insert_returnsChild(_, _, _)
insert_returnsChild(h, node, data) ==
  IF node = Null \/ node = Undefined
  THEN [heap |-> Append(h, Node(data)), ret |-> Len(h) + 1]
  ELSE IF data <= h[node].data
       THEN LET r == insert_returnsChild(h, h[node].left, data)
            IN [heap |-> [r.heap EXCEPT ![node].left = r.ret], ret |-> r.ret]
       ELSE LET r == insert_returnsChild(h, h[node].right, data)
            IN [heap |-> [r.heap EXCEPT ![node].right = r.ret], ret |-> r.ret]

\* node.left = new Node(data): the child slot is overwritten, not descended
RECURSIVE insert_dropsSubtree(_, _, _)
insert_dropsSubtree(h, node, data) ==
  IF node = Null \/ node = Undefined
  THEN [heap |-> Append(h, Node(data)), ret |-> Len(h) + 1]
  ELSE IF data <= h[node].data
       THEN [heap |-> [Append(h, Node(data)) EXCEPT ![node].left = Len(h) + 1], ret |-> node]
       ELSE LET r == insert_dropsSubtree(h, h[node].right, data)
            IN [heap |-> [r.heap EXCEPT ![node].right = r.ret], ret |-> node]

\* a key that is already in the node is not inserted again
RECURSIVE insert_noDuplicates(_, _, _)
insert_noDuplicates(h, node, data) ==
  IF node = Null \/ node = Undefined
  THEN [heap |-> Append(h, Node(data)), ret |-> Len(h) + 1]
  ELSE IF data = h[node].data
       THEN [heap |-> h, ret |-> node]
       ELSE IF data < h[node].data
            THEN LET r == insert_noDuplicates(h, h[node].left, data)
                 IN [heap |-> [r.heap EXCEPT ![node].left = r.ret], ret |-> node]
            ELSE LET r == insert_noDuplicates(h, h[node].right, data)
                 IN [heap |-> [r.heap EXCEPT ![node].right = r.ret], ret |-> node]

\* the key is compared with the left child's data where there is one
RECURSIVE insert_comparesChild(_, _, _)
insert_comparesChild(h, node, data) ==
  IF node = Null \/ node = Undefined
  THEN [heap |-> Append(h, Node(data)), ret |-> Len(h) + 1]
  ELSE IF data <= (IF h[node].left # Null THEN h[h[node].left].data ELSE h[node].data)
       THEN LET r == insert_comparesChild(h, h[node].left, data)
            IN [heap |-> [r.heap EXCEPT ![node].left = r.ret], ret |-> node]
       ELSE LET r == insert_comparesChild(h, h[node].right, data)
            IN [heap |-> [r.heap EXCEPT ![node].right = r.ret], ret |-> node]

\* node.left = node.right = insert(node.left, data): one subtree, two links
RECURSIVE insert_aliases(_, _, _)
insert_aliases(h, node, data) ==
  IF node = Null \/ node = Undefined
  THEN [heap |-> Append(h, Node(data)), ret |-> Len(h) + 1]
  ELSE IF data <= h[node].data
       THEN LET r == insert_aliases(h, h[node].left, data)
            IN [heap |-> [r.heap EXCEPT ![node].left = r.ret, ![node].right = r.ret], ret |-> node]
       ELSE LET r == insert_aliases(h, h[node].right, data)
            IN [heap |-> [r.heap EXCEPT ![node].right = r.ret], ret |-> node]

\* node.right = insert(node.left, data): the wrong subtree is descended
RECURSIVE insert_wrongSide(_, _, _)
insert_wrongSide(h, node, data) ==
  IF node = Null \/ node = Undefined
  THEN [heap |-> Append(h, Node(data)), ret |-> Len(h) + 1]
  ELSE IF data <= h[node].data
       THEN LET r == insert_wrongSide(h, h[node].left, data)
            IN [heap |-> [r.heap EXCEPT ![node].left = r.ret], ret |-> node]
       ELSE LET r == insert_wrongSide(h, h[node].left, data)
            IN [heap |-> [r.heap EXCEPT ![node].right = r.ret], ret |-> node]

\* ---- insert ----
RECURSIVE insert(_, _, _)
insert(h, node, data) ==
  IF node = Null \/ node = Undefined
  THEN [heap |-> Append(h, Node(data)), ret |-> Len(h) + 1]
  ELSE IF data <= h[node].data
       THEN LET r == insert(h, h[node].left, data)
            IN [heap |-> [r.heap EXCEPT ![node].left = r.ret], ret |-> node]
       ELSE LET r == insert(h, h[node].right, data)
            IN [heap |-> [r.heap EXCEPT ![node].right = r.ret], ret |-> node]

\* the node at the end of the chain of left links that starts at node
RECURSIVE LeftMostOf(_, _)
LeftMostOf(h, node) == IF h[node].left # Null THEN LeftMostOf(h, h[node].left) ELSE node

\* if instead of while: one step to the left only
minLoop_once(h, node, minValue) ==
  IF h[node].left # Null
  THEN h[h[node].left].data
  ELSE minValue

\* ---- min ----
RECURSIVE minLoop(_, _, _)
minLoop(h, node, minValue) ==
  IF h[node].left # Null
  THEN minLoop(h, h[node].left, h[h[node].left].data)
  ELSE minValue

\* the null guard is missing: node.data is read on null
min_noGuard(h, node) ==
  IF node = Null \/ node = Undefined
  THEN [heap |-> h, ret |-> UndefV, fault |-> "TypeError"]
  ELSE [heap |-> h, ret |-> Num(minLoop(h, node, h[node].data)), fault |-> "none"]

\* the loop runs on until node is null and the marker it stopped at is
\* returned
min_returnsMarker(h, node) ==
  IF node = Null
  THEN [heap |-> h, ret |-> NullV, fault |-> "none"]
  ELSE IF node = Undefined
       THEN [heap |-> h, ret |-> UndefV, fault |-> "TypeError"]
       ELSE [heap |-> h, ret |-> Ref(h[LeftMostOf(h, node)].left), fault |-> "none"]

\* node.left = node.left.left instead of node = node.left: the walk
\* shortens the chain of left links
min_movesLink(h, node) ==
  IF node = Null
  THEN [heap |-> h, ret |-> NullV, fault |-> "none"]
  ELSE IF node = Undefined
       THEN [heap |-> h, ret |-> UndefV, fault |-> "TypeError"]
       ELSE [heap |-> [h EXCEPT ![node].left = Null],
             ret |-> Num(minLoop(h, node, h[node].data)), fault |-> "none"]

min(h, node) ==
  IF node = Null
  THEN [heap |-> h, ret |-> NullV, fault |-> "none"]
  ELSE IF node = Undefined
       THEN [heap |-> h, ret |-> UndefV, fault |-> "TypeError"]
       ELSE [heap |-> h, ret |-> Num(minLoop(h, node, h[node].data)), fault |-> "none"]

\* the node itself is not counted
RECURSIVE count_noSelf(_, _)
count_noSelf(h, node) ==
  IF node = Null \/ node = Undefined
  THEN [heap |-> h, ret |-> 0]
  ELSE LET l == count_noSelf(h, h[node].left)
           r == count_noSelf(l.heap, l.heap[node].right)
       IN [heap |-> r.heap, ret |-> l.ret + r.ret]

\* the empty tree counts as one
RECURSIVE count_emptyOne(_, _)
count_emptyOne(h, node) ==
  IF node = Null \/ node = Undefined
  THEN [heap |-> h, ret |-> 1]
  ELSE LET l == count_emptyOne(h, h[node].left)
           r == count_emptyOne(l.heap, l.heap[node].right)
       IN [heap |-> r.heap, ret |-> l.ret + r.ret + 1]

\* ---- count ----
RECURSIVE count(_, _)
count(h, node) ==
  IF node = Null \/ node = Undefined
  THEN [heap |-> h, ret |-> 0]
  ELSE LET l == count(h, h[node].left)
           r == count(l.heap, l.heap[node].right)
       IN [heap |-> r.heap, ret |-> l.ret + r.ret + 1]

\* the key is written before the left subtree is visited
RECURSIVE inOrder_rootFirst(_, _)
inOrder_rootFirst(w, node) ==
  IF node = Null \/ node = Undefined
  THEN [heap |-> w.heap, out |-> w.out, ret |-> NullV]
  ELSE LET a == [heap |-> w.heap, out |-> Append(w.out, w.heap[node].data)]
           b == inOrder_rootFirst(a, a.heap[node].left)
           c == inOrder_rootFirst(b, b.heap[node].right)
       IN [heap |-> c.heap, out |-> c.out, ret |-> UndefV]

\* node.left = inOrder(node.left), as insert does: the link is overwritten
RECURSIVE inOrder_clobber(_, _)
inOrder_clobber(w, node) ==
  IF node = Null \/ node = Undefined
  THEN [heap |-> w.heap, out |-> w.out, ret |-> NullV]
  ELSE LET a == inOrder_clobber(w, w.heap[node].left)
           b == [heap |-> [a.heap EXCEPT ![node].left = Null], out |-> Append(a.out, a.heap[node].data)]
           c == inOrder_clobber(b, b.heap[node].right)
       IN [heap |-> c.heap, out |-> c.out, ret |-> UndefV]

\* the right subtree is visited first, the left subtree last
RECURSIVE inOrder_rightFirst(_, _)
inOrder_rightFirst(w, node) ==
  IF node = Null \/ node = Undefined
  THEN [heap |-> w.heap, out |-> w.out, ret |-> NullV]
  ELSE LET a == inOrder_rightFirst(w, w.heap[node].right)
           b == [heap |-> a.heap, out |-> Append(a.out, a.heap[node].data)]
           c == inOrder_rightFirst(b, b.heap[node].left)
       IN [heap |-> c.heap, out |-> c.out, ret |-> UndefV]

\* ---- traversals: w is [heap, out], out the console so far ----
RECURSIVE inOrder(_, _)
inOrder(w, node) ==
  IF node = Null \/ node = Undefined
  THEN [heap |-> w.heap, out |-> w.out, ret |-> NullV]
  ELSE LET a == inOrder(w, w.heap[node].left)
           b == [heap |-> a.heap, out |-> Append(a.out, a.heap[node].data)]
           c == inOrder(b, b.heap[node].right)
       IN [heap |-> c.heap, out |-> c.out, ret |-> UndefV]

\* node.right is set to null once the right subtree has been visited
RECURSIVE preOrder_detach(_, _)
preOrder_detach(w, node) ==
  IF node = Null \/ node = Undefined
  THEN [heap |-> w.heap, out |-> w.out, ret |-> NullV]
  ELSE LET a == [heap |-> w.heap, out |-> Append(w.out, w.heap[node].data)]
           b == preOrder_detach(a, a.heap[node].left)
           c == preOrder_detach(b, b.heap[node].right)
       IN [heap |-> [c.heap EXCEPT ![node].right = Null], out |-> c.out, ret |-> UndefV]

\* the right subtree is visited before the left subtree
RECURSIVE preOrder_rightFirst(_, _)
preOrder_rightFirst(w, node) ==
  IF node = Null \/ node = Undefined
  THEN [heap |-> w.heap, out |-> w.out, ret |-> NullV]
  ELSE LET a == [heap |-> w.heap, out |-> Append(w.out, w.heap[node].data)]
           b == preOrder_rightFirst(a, a.heap[node].right)
           c == preOrder_rightFirst(b, b.heap[node].left)
       IN [heap |-> c.heap, out |-> c.out, ret |-> UndefV]

\* the key is written after the two subtrees
RECURSIVE preOrder_rootLast(_, _)
preOrder_rootLast(w, node) ==
  IF node = Null \/ node = Undefined
  THEN [heap |-> w.heap, out |-> w.out, ret |-> NullV]
  ELSE LET a == preOrder_rootLast(w, w.heap[node].left)
           b == preOrder_rootLast(a, a.heap[node].right)
       IN [heap |-> b.heap, out |-> Append(b.out, b.heap[node].data), ret |-> UndefV]

RECURSIVE preOrder(_, _)
preOrder(w, node) ==
  IF node = Null \/ node = Undefined
  THEN [heap |-> w.heap, out |-> w.out, ret |-> NullV]
  ELSE LET a == [heap |-> w.heap, out |-> Append(w.out, w.heap[node].data)]
           b == preOrder(a, a.heap[node].left)
           c == preOrder(b, b.heap[node].right)
       IN [heap |-> c.heap, out |-> c.out, ret |-> UndefV]

\* the key is written between the two subtrees
RECURSIVE postOrder_rootMiddle(_, _)
postOrder_rootMiddle(w, node) ==
  IF node = Null \/ node = Undefined
  THEN [heap |-> w.heap, out |-> w.out, ret |-> NullV]
  ELSE LET a == postOrder_rootMiddle(w, w.heap[node].left)
           b == [heap |-> a.heap, out |-> Append(a.out, a.heap[node].data)]
           c == postOrder_rootMiddle(b, b.heap[node].right)
       IN [heap |-> c.heap, out |-> c.out, ret |-> UndefV]

\* console.log before the guard: an empty slot writes its null
RECURSIVE postOrder_logsEmpty(_, _)
postOrder_logsEmpty(w, node) ==
  IF node = Null \/ node = Undefined
  THEN [heap |-> w.heap, out |-> Append(w.out, Null), ret |-> NullV]
  ELSE LET a == postOrder_logsEmpty(w, w.heap[node].left)
           b == postOrder_logsEmpty(a, a.heap[node].right)
       IN [heap |-> b.heap, out |-> Append(b.out, b.heap[node].data), ret |-> UndefV]

\* the call for the right subtree is missing
RECURSIVE postOrder_noRight(_, _)
postOrder_noRight(w, node) ==
  IF node = Null \/ node = Undefined
  THEN [heap |-> w.heap, out |-> w.out, ret |-> NullV]
  ELSE LET a == postOrder_noRight(w, w.heap[node].left)
       IN [heap |-> a.heap, out |-> Append(a.out, a.heap[node].data), ret |-> UndefV]

RECURSIVE postOrder(_, _)
postOrder(w, node) ==
  IF node = Null \/ node = Undefined
  THEN [heap |-> w.heap, out |-> w.out, ret |-> NullV]
  ELSE LET a == postOrder(w, w.heap[node].left)
           b == postOrder(a, a.heap[node].right)
       IN [heap |-> b.heap, out |-> Append(b.out, b.heap[node].data), ret |-> UndefV]

\* ---- call depth and loop steps: the same code, counting instead of
\* computing.  fuel bounds the count: a call chain or a loop that does not
\* end within fuel returns more than fuel ----
Fuel(h) == Len(h) + 2

Max(a, b) == IF a >= b THEN a ELSE b

\* nested calls of insert(node, data), the call that finds null included
RECURSIVE insertDepth(_, _, _, _)
insertDepth(h, node, data, fuel) ==
  IF fuel = 0 \/ node = Null \/ node = Undefined
  THEN 1
  ELSE IF data <= h[node].data
       THEN insertDepth(h, h[node].left, data, fuel - 1) + 1
       ELSE insertDepth(h, h[node].right, data, fuel - 1) + 1

\* nested calls of count(node)
RECURSIVE countDepth(_, _, _)
countDepth(h, node, fuel) ==
  IF fuel = 0 \/ node = Null \/ node = Undefined
  THEN 1
  ELSE Max(countDepth(h, h[node].left, fuel - 1), countDepth(h, h[node].right, fuel - 1)) + 1

\* nested calls of inOrder(node), preOrder(node), postOrder(node): each
\* calls itself on node.left and on node.right
RECURSIVE traversalDepth(_, _, _)
traversalDepth(h, node, fuel) ==
  IF fuel = 0 \/ node = Null \/ node = Undefined
  THEN 1
  ELSE Max(traversalDepth(h, h[node].left, fuel - 1), traversalDepth(h, h[node].right, fuel - 1)) + 1

\* node = node.left is missing in the loop body: the test never changes
RECURSIVE minSteps_noAdvance(_, _, _)
minSteps_noAdvance(h, node, fuel) ==
  IF fuel = 0
  THEN 1
  ELSE IF h[node].left # Null
       THEN minSteps_noAdvance(h, node, fuel - 1) + 1
       ELSE 0

\* iterations of the while loop of min on a non-null node
RECURSIVE minSteps(_, _, _)
minSteps(h, node, fuel) ==
  IF fuel = 0
  THEN 1
  ELSE IF h[node].left # Null
       THEN minSteps(h, h[node].left, fuel - 1) + 1
       ELSE 0

\* ---- the caller: let root = null; nodeData.forEach(key => root = insert(root, key)) ----
Init ==
  /\ heap = <<>>
  /\ root = [t \in Trees |-> Null]
  /\ inserted = [t \in Trees |-> <<>>]
  /\ lastOp = "none"
  /\ lastTree = 1
  /\ ret = UndefV
  /\ out = <<>>
  /\ fault = "none"

\* the module keeps the first root it made in a variable of its own and
\* inserts there, whatever root the caller passes
Insert_globalRoot(t, key) ==
  /\ LET r == insert(heap, IF Len(heap) > 0 THEN 1 ELSE root[t], key)
     IN /\ heap' = r.heap
        /\ root' = [root EXCEPT ![t] = r.ret]
        /\ ret' = Ref(r.ret)
  /\ inserted' = [inserted EXCEPT ![t] = Append(@, key)]
  /\ lastOp' = "insert"
  /\ lastTree' = t
  /\ out' = <<>>
  /\ fault' = "none"

Insert(t, key) ==
  /\ LET r == insert(heap, root[t], key)
     IN /\ heap' = r.heap
        /\ root' = [root EXCEPT ![t] = r.ret]
        /\ ret' = Ref(r.ret)
  /\ inserted' = [inserted EXCEPT ![t] = Append(@, key)]
  /\ lastOp' = "insert"
  /\ lastTree' = t
  /\ out' = <<>>
  /\ fault' = "none"

Min(t) ==
  /\ LET r == min(heap, root[t])
     IN /\ heap' = r.heap
        /\ ret' = r.ret
        /\ fault' = r.fault
  /\ lastOp' = "min"
  /\ lastTree' = t
  /\ out' = <<>>
  /\ UNCHANGED <<root, inserted>>

Count(t) ==
  /\ LET r == count(heap, root[t])
     IN /\ heap' = r.heap
        /\ ret' = Num(r.ret)
  /\ lastOp' = "count"
  /\ lastTree' = t
  /\ out' = <<>>
  /\ fault' = "none"
  /\ UNCHANGED <<root, inserted>>

InOrder(t) ==
  /\ LET r == inOrder([heap |-> heap, out |-> <<>>], root[t])
     IN /\ heap' = r.heap
        /\ out' = r.out
        /\ ret' = r.ret
  /\ lastOp' = "inOrder"
  /\ lastTree' = t
  /\ fault' = "none"
  /\ UNCHANGED <<root, inserted>>

PreOrder(t) ==
  /\ LET r == preOrder([heap |-> heap, out |-> <<>>], root[t])
     IN /\ heap' = r.heap
        /\ out' = r.out
        /\ ret' = r.ret
  /\ lastOp' = "preOrder"
  /\ lastTree' = t
  /\ fault' = "none"
  /\ UNCHANGED <<root, inserted>>

PostOrder(t) ==
  /\ LET r == postOrder([heap |-> heap, out |-> <<>>], root[t])
     IN /\ heap' = r.heap
        /\ out' = r.out
        /\ ret' = r.ret
  /\ lastOp' = "postOrder"
  /\ lastTree' = t
  /\ fault' = "none"
  /\ UNCHANGED <<root, inserted>>

Next ==
  \/ \E t \in Callers, key \in Keys : Len(heap) < MaxNodes /\ Insert(t, key)
  \/ \E t \in Callers : Min(t)
  \/ \E t \in Callers : Count(t)
  \/ \E t \in Callers : InOrder(t)
  \/ \E t \in Callers : PreOrder(t)
  \/ \E t \in Callers : PostOrder(t)

Spec == Init /\ [][Next]_vars

\* two callers interleave their calls; the heap holds at most MaxShared nodes
NextTwo ==
  \/ \E t \in Trees, key \in Keys : Len(heap) < MaxShared /\ Insert(t, key)
  \/ \E t \in Trees : Min(t)
  \/ \E t \in Trees : Count(t)
  \/ \E t \in Trees : InOrder(t)
  \/ \E t \in Trees : PreOrder(t)
  \/ \E t \in Trees : PostOrder(t)

SpecTwo == Init /\ [][NextTwo]_vars

\* ---- string conversion of the + operator with a string operand ----
StrV(s) == [type |-> "string", val |-> s]

ToJSString(v) ==
  CASE v.type = "undefined" -> "undefined"
    [] v.type = "null" -> "null"
    [] v.type = "number" -> ToString(v.val)
    [] v.type = "string" -> v.val
    [] OTHER -> "[object Object]"

\* a caller that declares its root without a value (let root;) starts from
\* undefined, which insert, count and the traversals take for an empty tree
InitLoose ==
  /\ heap = <<>>
  /\ root \in [Trees -> {Null, Undefined}]
  /\ \A t \in Trees \ Callers : root[t] = Null
  /\ inserted = [t \in Trees |-> <<>>]
  /\ lastOp = "none"
  /\ lastTree = 1
  /\ ret = UndefV
  /\ out = <<>>
  /\ fault = "none"

SpecLoose == InitLoose /\ [][Next]_vars

\* the demo component runs one of the key arrays of the end-to-end
\* scenarios: nodeData.forEach inserts its keys in order, then it queries
DemoData == <<4, 2, 1, 3, 6, 5>>

Scenarios == {DemoData, <<>>, <<5, 5, 5>>, <<1, 2, 3, 4, 5, 6>>, <<6, 5, 4, 3, 2, 1>>}

IsPrefix(s, d) == Len(s) <= Len(d) /\ \A i \in 1..Len(s) : s[i] = d[i]

\* the return statement of executeNodeCase, once forEach has inserted the
\* keys of nodeData
ExecuteNodeCase(t) ==
  /\ inserted[t] = DemoData
  /\ LET r == inOrder([heap |-> heap, out |-> <<>>], root[t])
     IN /\ heap' = r.heap
        /\ out' = r.out
        /\ ret' = StrV("Minimum value in BST is " \o ToJSString(r.ret))
  /\ lastOp' = "executeNodeCase"
  /\ lastTree' = t
  /\ fault' = "none"
  /\ UNCHANGED <<root, inserted>>

NextScenario ==
  \/ \E t \in Callers, d \in Scenarios :
       /\ Len(inserted[t]) < Len(d)
       /\ IsPrefix(inserted[t], d)
       /\ Insert(t, d[Len(inserted[t]) + 1])
  \/ \E t \in Callers : Min(t)
  \/ \E t \in Callers : Count(t)
  \/ \E t \in Callers : InOrder(t)
  \/ \E t \in Callers : PreOrder(t)
  \/ \E t \in Callers : PostOrder(t)
  \/ \E t \in Callers : ExecuteNodeCase(t)

SpecScenario == Init /\ [][NextScenario]_vars

\* ---- shape of the state ----
Refs == 1..Len(heap)

TypeOK ==
  /\ Len(heap) <= MaxNodes
  /\ \A n \in Refs : heap[n].data \in Keys /\ heap[n].left \in Refs \cup {Null} /\ heap[n].right \in Refs \cup {Null}
  /\ \A t \in Trees : root[t] \in Refs \cup {Null}
  /\ lastOp \in {"none", "insert", "min", "count", "inOrder", "preOrder", "postOrder", "executeNodeCase"}
  /\ lastTree \in Trees
  /\ fault \in {"none", "TypeError"}

\* ---- structure of a tree, read off the heap without the module's functions ----
Children(h, S) == ({h[n].left : n \in S} \cup {h[n].right : n \in S}) \cap (1..Len(h))

RECURSIVE ReachN(_, _, _)
ReachN(h, S, i) == IF i = 0 THEN S ELSE ReachN(h, S \cup Children(h, S), i - 1)

Subtree(h, n) == IF n \in 1..Len(h) THEN ReachN(h, {n}, Len(h)) ELSE {}

RECURSIVE LeftChainN(_, _, _)
LeftChainN(h, n, i) ==
  IF i = 0 \/ h[n].left \notin 1..Len(h) THEN {n} ELSE {n} \cup LeftChainN(h, h[n].left, i - 1)

LeftMost(h, n) == CHOOSE m \in LeftChainN(h, n, Len(h)) : h[m].left = Null

Range(s) == {s[i] : i \in 1..Len(s)}

Smallest(S) == CHOOSE x \in S : \A y \in S : x <= y

HasDuplicate(s) == \E i, j \in 1..Len(s) : i # j /\ s[i] = s[j]

\* the step is a call of insert by the caller
InsertStep == lastOp' = "insert" /\ inserted' # inserted

\* ---- claims ----

\* C1: after any sequence of inserts from the empty root, the keys that
\* inOrder emits on the root are in non-decreasing order.
C1_InOrderNonDecreasing ==
  lastOp = "inOrder" => \A i, j \in 1..Len(out) : i < j => out[i] <= out[j]

C1_Witness ==
  /\ lastOp = "inOrder"
  /\ Len(out) >= 3
  /\ heap[root[lastTree]].left # Null
  /\ heap[root[lastTree]].right # Null

\* C2: BST ordering invariant: for every node N, every key anywhere in N's
\* left subtree is <= N.data and every key anywhere in N's right subtree is
\* > N.data.
C2_OrderingInvariant ==
  \A n \in Refs :
    /\ \A m \in Subtree(heap, heap[n].left) : heap[m].data <= heap[n].data
    /\ \A m \in Subtree(heap, heap[n].right) : heap[m].data > heap[n].data

C2_Witness ==
  \E n \in Refs :
    /\ heap[n].left # Null
    /\ heap[heap[n].left].right # Null
    /\ heap[n].right # Null

\* C3: count(root) after inserting n keys, duplicates or not, is n; count of
\* the empty root is 0 and count of a node is 1 + count(left) + count(right).
C3_CountIsNumberInserted ==
  /\ lastOp = "count" => ret = Num(Len(inserted[lastTree]))
  /\ count(heap, Null).ret = 0
  /\ \A n \in Refs :
       count(heap, n).ret = 1 + count(heap, heap[n].left).ret + count(heap, heap[n].right).ret

C3_Witness ==
  /\ lastOp = "count"
  /\ ret = Num(3)
  /\ HasDuplicate(inserted[lastTree])

\* C4: for a non-empty sequence of inserted keys, min(root) is the smallest
\* inserted key, and it is the data of the node reached from the root by left
\* links until a node without left child.
C4_MinIsSmallest ==
  (lastOp = "min" /\ inserted[lastTree] # <<>>) =>
    /\ ret = Num(Smallest(Range(inserted[lastTree])))
    /\ ret = Num(heap[LeftMost(heap, root[lastTree])].data)

C4_Witness ==
  /\ lastOp = "min"
  /\ Len(inserted[lastTree]) >= 3
  /\ heap[root[lastTree]].left # Null
  /\ heap[heap[root[lastTree]].left].left # Null
  /\ ret = Num(1)

\* C5: min on an empty tree returns the empty result (null) and raises no
\* fault.
C5_MinOfEmpty ==
  (lastOp = "min" /\ root[lastTree] = Null) => (ret = NullV /\ fault = "none")

C5_Witness ==
  /\ lastOp = "min"
  /\ root[lastTree] = Null
  /\ inserted[lastTree] = <<>>
  /\ ret = NullV
  /\ fault = "none"

\* C6: duplicate-key policy: when the inserted key equals the key of a node
\* N on the insertion path, the new node lands in N's left subtree, never in
\* its right subtree, and the insert raises no fault.
C6_DuplicatesGoLeft ==
  [][InsertStep =>
       LET new == Len(heap')
           key == inserted'[lastTree'][Len(inserted'[lastTree'])]
           path == {n \in 1..Len(heap) : new \in Subtree(heap', n)}
       IN /\ fault' = "none"
          /\ \A n \in path :
               heap[n].data = key =>
                 /\ new \in Subtree(heap', heap'[n].left)
                 /\ new \notin Subtree(heap', heap'[n].right)]_vars

C6_Witness ==
  /\ lastOp = "insert"
  /\ Len(inserted[lastTree]) >= 3
  /\ \E n \in Refs :
       /\ n # Len(heap)
       /\ heap[n].data = heap[Len(heap)].data
       /\ heap[n].left # Len(heap)
       /\ Len(heap) \in Subtree(heap, heap[n].left)

\* C7: insert on an empty root returns a new single-node tree: a fresh node
\* that holds the key and has no left and no right child (also when the
\* heap already holds the nodes of another tree).
C7_InsertIntoEmpty ==
  [][(InsertStep /\ root[lastTree'] = Null) =>
       LET n == root'[lastTree']
       IN /\ n \in 1..Len(heap')
          /\ n \notin 1..Len(heap)
          /\ ret' = Ref(n)
          /\ heap'[n].data = inserted'[lastTree'][1]
          /\ heap'[n].left = Null
          /\ heap'[n].right = Null]_vars

C7_Witness ==
  /\ lastOp = "insert"
  /\ Len(inserted[lastTree]) = 1
  /\ root[lastTree] > 1
  /\ heap[root[lastTree]] = Node(inserted[lastTree][1])

\* C8: insert on a non-empty root returns the very node it was given, with
\* the same data; the tree is updated in place (one node allocated, none
\* copied), so a root reference that is set never changes again.
C8_RootIdentityKept ==
  [][InsertStep =>
       /\ \A t \in Trees :
            root[t] # Null =>
              /\ root'[t] = root[t]
              /\ heap'[root[t]].data = heap[root[t]].data
       /\ root[lastTree'] # Null =>
            /\ ret' = Ref(root[lastTree'])
            /\ Len(heap') = Len(heap) + 1]_vars

C8_Witness ==
  /\ lastOp = "insert"
  /\ Len(inserted[lastTree]) >= 3
  /\ ret = Ref(root[lastTree])
  /\ root[lastTree] # Len(heap)

\* C9: node lifecycle: each insert creates exactly one node and puts it in a
\* slot that was empty; no operation removes a node from a tree or changes
\* the data of a node.
C9_NodeLifecycle ==
  [][/\ Len(heap') >= Len(heap)
     /\ \A n \in 1..Len(heap) : heap'[n].data = heap[n].data
     /\ \A t \in Trees : Subtree(heap, root[t]) \subseteq Subtree(heap', root'[t])
     /\ InsertStep =>
          LET new == Len(heap')
              t == lastTree'
          IN /\ Len(heap') = Len(heap) + 1
             /\ new \in Subtree(heap', root'[t])
             /\ \/ root[t] = Null /\ root'[t] = new
                \/ \E p \in 1..Len(heap) :
                     \/ heap[p].left = Null /\ heap'[p].left = new
                     \/ heap[p].right = Null /\ heap'[p].right = new
     /\ ~InsertStep => Len(heap') = Len(heap)]_vars

C9_Witness ==
  /\ lastOp = "insert"
  /\ Len(heap) = MaxNodes
  /\ \E p \in Refs : heap[p].right = Len(heap) /\ heap[p].left # Null /\ p # root[lastTree]

\* C10: the three traversals are read-only: a call of inOrder, preOrder or
\* postOrder leaves the data, left link and right link of every node, and
\* the roots, as they were.
C10_TraversalsReadOnly ==
  [][lastOp' \in {"inOrder", "preOrder", "postOrder"} => (heap' = heap /\ root' = root)]_vars

C10_Witness ==
  /\ lastOp \in {"inOrder", "preOrder", "postOrder"}
  /\ Len(out) = MaxNodes
  /\ \E n \in Refs : heap[n].left # Null /\ heap[n].right # Null

\* ---- the order of emission the three traversals are to follow ----
Traversals == {"inOrder", "preOrder", "postOrder"}

\* node n comes before node m: root, then left subtree, then right subtree
PreBefore(h, n, m) ==
  /\ n # m
  /\ \/ m \in Subtree(h, n)
     \/ \E a \in 1..Len(h) : n \in Subtree(h, h[a].left) /\ m \in Subtree(h, h[a].right)

\* left subtree, then right subtree, then root
PostBefore(h, n, m) ==
  /\ n # m
  /\ \/ n \in Subtree(h, m)
     \/ \E a \in 1..Len(h) : n \in Subtree(h, h[a].left) /\ m \in Subtree(h, h[a].right)

\* left subtree, then root, then right subtree
InBefore(h, n, m) ==
  /\ n # m
  /\ \/ n \in Subtree(h, h[m].left)
     \/ m \in Subtree(h, h[n].right)
     \/ \E a \in 1..Len(h) : n \in Subtree(h, h[a].left) /\ m \in Subtree(h, h[a].right)

\* the console holds one key per node of the tree, each at the place that
\* the number of nodes before it gives
EmittedInOrder(Before(_, _, _), h, r, o) ==
  LET nodes == Subtree(h, r)
  IN /\ Len(o) = Cardinality(nodes)
     /\ \A n \in nodes :
          o[1 + Cardinality({m \in nodes : Before(h, m, n)})] = h[n].data

\* C11: idempotence of traversal: a second call of the same traversal on the
\* same tree, with no insert in between, writes the same sequence of keys.
C11_TraversalIdempotent ==
  [][(lastOp \in Traversals /\ lastOp' = lastOp /\ lastTree' = lastTree) => out' = out]_vars

C11_Witness ==
  /\ lastOp = "preOrder"
  /\ Len(out) >= 4
  /\ heap[root[lastTree]].right # Null
  /\ preOrder([heap |-> heap, out |-> <<>>], root[lastTree]).out = out

\* C12: preOrder emits root, left, right: the key of a node comes before
\* the keys of its subtrees and every key of its left subtree before every
\* key of its right subtree.
C12_PreOrderOrder ==
  lastOp = "preOrder" => EmittedInOrder(PreBefore, heap, root[lastTree], out)

C12_Witness ==
  /\ lastOp = "preOrder"
  /\ Len(out) >= 4
  /\ heap[root[lastTree]].left # Null
  /\ heap[root[lastTree]].right # Null
  /\ heap[heap[root[lastTree]].left].right # Null
  /\ out[1] = heap[root[lastTree]].data

\* C13: postOrder emits left, right, root: every key of the left subtree of
\* a node comes before every key of its right subtree and the key of the
\* node after the keys of both.
C13_PostOrderOrder ==
  lastOp = "postOrder" => EmittedInOrder(PostBefore, heap, root[lastTree], out)

C13_Witness ==
  /\ lastOp = "postOrder"
  /\ Len(out) >= 4
  /\ heap[root[lastTree]].left # Null
  /\ heap[root[lastTree]].right # Null
  /\ heap[heap[root[lastTree]].right].left # Null
  /\ out[Len(out)] = heap[root[lastTree]].data

\* C14: inOrder emits left, root, right: every key of the left subtree of a
\* node comes before the key of the node and that before every key of its
\* right subtree.
C14_InOrderOrder ==
  lastOp = "inOrder" => EmittedInOrder(InBefore, heap, root[lastTree], out)

C14_Witness ==
  /\ lastOp = "inOrder"
  /\ Len(out) >= 4
  /\ heap[root[lastTree]].left # Null
  /\ heap[root[lastTree]].right # Null
  /\ heap[heap[root[lastTree]].left].right # Null
  /\ out[1] # heap[root[lastTree]].data

\* C15: on an empty tree each of the three traversals writes nothing and
\* raises no fault.
C15_TraversalOfEmpty ==
  (lastOp \in Traversals /\ root[lastTree] = Null) => (out = <<>> /\ fault = "none")

C15_Witness ==
  /\ lastOp = "postOrder"
  /\ root[lastTree] = Null
  /\ out = <<>>
  /\ ret = NullV

\* a JavaScript array value
SeqV(s) == [type |-> "array", val |-> s]

\* C16: the value a traversal returns to its caller is the sequence of keys
\* in the order of that traversal (null standing for the empty sequence).
C16_ReturnsSequence ==
  lastOp \in Traversals => (ret = SeqV(out) \/ (out = <<>> /\ ret = NullV))

\* C17: end to end: after inserting 4, 2, 1, 3, 6, 5 from the empty root,
\* inOrder yields 1, 2, 3, 4, 5, 6, count returns 6 and min returns 1.
C17_DemoScenario ==
  inserted[lastTree] = DemoData =>
    /\ lastOp = "inOrder" => out = <<1, 2, 3, 4, 5, 6>>
    /\ lastOp = "count" => ret = Num(6)
    /\ lastOp = "min" => ret = Num(1)

C17_Witness ==
  /\ inserted[lastTree] = DemoData
  /\ lastOp = "inOrder"
  /\ out = <<1, 2, 3, 4, 5, 6>>
  /\ count(heap, root[lastTree]).ret = 6
  /\ min(heap, root[lastTree]).ret = Num(1)

\* C18: end to end: with no key inserted, count returns 0 and min returns
\* the empty result.
C18_EmptyScenario ==
  (inserted[lastTree] = <<>> /\ root[lastTree] = Null) =>
    /\ lastOp = "count" => ret = Num(0)
    /\ lastOp = "min" => (ret = NullV /\ fault = "none")
    /\ count(heap, root[lastTree]).ret = 0
    /\ min(heap, root[lastTree]).ret = NullV

C18_Witness ==
  /\ inserted[lastTree] = <<>>
  /\ root[lastTree] = Null
  /\ lastOp = "count"
  /\ ret = Num(0)

\* C19: end to end: after inserting 5, 5, 5 from the empty root, count is 3
\* and inOrder yields 5, 5, 5; the duplicates raise no fault.
C19_DuplicateScenario ==
  inserted[lastTree] = <<5, 5, 5>> =>
    /\ fault = "none"
    /\ Len(heap) = 3
    /\ lastOp = "count" => ret = Num(3)
    /\ lastOp = "inOrder" => out = <<5, 5, 5>>

C19_Witness ==
  /\ inserted[lastTree] = <<5, 5, 5>>
  /\ lastOp = "inOrder"
  /\ out = <<5, 5, 5>>
  /\ count(heap, root[lastTree]).ret = 3

\* the parent links that point to node n
ParentLinks(h, n) ==
  {<<p, "left">> : p \in {q \in 1..Len(h) : h[q].left = n}}
    \cup {<<p, "right">> : p \in {q \in 1..Len(h) : h[q].right = n}}

\* C20: tree shape: what hangs under a root is a rooted binary tree without
\* sharing and without cycles: every node but the root is the child of
\* exactly one parent link, the root of none, and no node is reachable from
\* itself.
C20_TreeShape ==
  \A t \in Trees :
    \A n \in Subtree(heap, root[t]) :
      /\ Cardinality(ParentLinks(heap, n)) = (IF n = root[t] THEN 0 ELSE 1)
      /\ n \notin ReachN(heap, Children(heap, {n}), Len(heap))

C20_Witness ==
  /\ Len(heap) = MaxNodes
  /\ Subtree(heap, root[1]) = Refs
  /\ \E n \in Refs :
       /\ n # root[1]
       /\ heap[n].left # Null
       /\ heap[n].right # Null

\* C21: the module keeps no state between calls: with two roots built by
\* interleaved inserts, an insert into one tree leaves the nodes, links,
\* count, min and traversals of the other tree as they were, and no node
\* belongs to both trees.
C21_TreesIndependent ==
  [][InsertStep =>
       /\ Subtree(heap', root'[1]) \cap Subtree(heap', root'[2]) = {}
       /\ \A u \in Trees \ {lastTree'} :
            /\ root'[u] = root[u]
            /\ Subtree(heap', root'[u]) = Subtree(heap, root[u])
            /\ \A n \in Subtree(heap, root[u]) : heap'[n] = heap[n]
            /\ count(heap', root'[u]).ret = count(heap, root[u]).ret
            /\ min(heap', root'[u]).ret = min(heap, root[u]).ret
            /\ inOrder([heap |-> heap', out |-> <<>>], root'[u]).out
                 = inOrder([heap |-> heap, out |-> <<>>], root[u]).out
            /\ preOrder([heap |-> heap', out |-> <<>>], root'[u]).out
                 = preOrder([heap |-> heap, out |-> <<>>], root[u]).out
            /\ postOrder([heap |-> heap', out |-> <<>>], root'[u]).out
                 = postOrder([heap |-> heap, out |-> <<>>], root[u]).out]_vars

C21_Witness ==
  /\ lastOp = "insert"
  /\ Len(heap) = MaxShared
  /\ \A t \in Trees : root[t] # Null
  /\ root[lastTree] # Len(heap)
  /\ \E n \in Refs : n < Len(heap) /\ n \notin Subtree(heap, root[lastTree])

\* the number of times key k occurs in sequence s
Occurrences(s, k) == Cardinality({i \in 1..Len(s) : s[i] = k})

\* C22: each traversal emits all keys of the tree: every key is written as
\* many times as it was inserted, and nothing else is written.
C22_EmitsAllKeys ==
  lastOp \in Traversals =>
    /\ Len(out) = Len(inserted[lastTree])
    /\ \A k \in Range(out) \cup Range(inserted[lastTree]) :
         Occurrences(out, k) = Occurrences(inserted[lastTree], k)

C22_Witness ==
  /\ lastOp = "postOrder"
  /\ Len(out) >= 4
  /\ HasDuplicate(out)
  /\ out # inserted[lastTree]
  /\ heap[root[lastTree]].right # Null

\* C23: min returns the empty result exactly when the tree is empty: on a
\* non-empty tree the walk stops at a node without left child and returns
\* the key of that node, never the null of the missing child.
C23_MinEmptyIffEmptyTree ==
  lastOp = "min" =>
    /\ ret = NullV <=> root[lastTree] = Null
    /\ root[lastTree] # Null =>
         \E n \in LeftChainN(heap, root[lastTree], Len(heap)) :
           /\ heap[n].left = Null
           /\ ret = Num(heap[n].data)
           /\ ret.val \in Range(inserted[lastTree])

C23_Witness ==
  /\ lastOp = "min"
  /\ root[lastTree] # Null
  /\ heap[root[lastTree]].left # Null
  /\ heap[root[lastTree]].right # Null
  /\ ret = Num(heap[heap[root[lastTree]].left].data)

\* the number of nodes on the longest path from node n down to a leaf
RECURSIVE Height(_, _)
Height(h, n) ==
  IF n \notin 1..Len(h) THEN 0 ELSE 1 + Max(Height(h, h[n].left), Height(h, h[n].right))

StrictlyIncreasing(s) == \A i \in 1..(Len(s) - 1) : s[i] < s[i + 1]

NonIncreasing(s) == \A i \in 1..(Len(s) - 1) : s[i] >= s[i + 1]

\* C24: no rebalancing: n strictly increasing keys give a chain of height n
\* in which every left child is empty, and the last insert recurses n deep;
\* n non-increasing keys give a chain of height n in which every right
\* child is empty.
C24_SortedInputGivesChain ==
  [][InsertStep =>
       LET t == lastTree'
           s == inserted'[t]
           nodes == Subtree(heap', root'[t])
       IN /\ StrictlyIncreasing(s) =>
               /\ \A n \in nodes : heap'[n].left = Null
               /\ Height(heap', root'[t]) = Len(s)
               /\ insertDepth(heap, root[t], s[Len(s)], Fuel(heap)) = Len(s)
          /\ NonIncreasing(s) =>
               /\ \A n \in nodes : heap'[n].right = Null
               /\ Height(heap', root'[t]) = Len(s)]_vars

C24_Witness ==
  /\ lastOp = "insert"
  /\ inserted[lastTree] = <<1, 2, 3, 4, 5, 6>>
  /\ Height(heap, root[lastTree]) = 6
  /\ \A n \in Refs : heap[n].left = Null

\* C25: every operation ends on every tree that inserts can build: insert,
\* count and the traversals nest at most height + 1 calls, and the loop of
\* min makes at most height steps.
C25_BoundedByHeight ==
  \A t \in Trees :
    LET H == Height(heap, root[t])
    IN /\ \A k \in Keys : insertDepth(heap, root[t], k, Fuel(heap)) <= H + 1
       /\ countDepth(heap, root[t], Fuel(heap)) <= H + 1
       /\ traversalDepth(heap, root[t], Fuel(heap)) <= H + 1
       /\ root[t] # Null => minSteps(heap, root[t], Fuel(heap)) <= H

C25_Witness ==
  /\ lastOp = "min"
  /\ Height(heap, root[lastTree]) >= 3
  /\ minSteps(heap, root[lastTree], Fuel(heap)) = 2
  /\ countDepth(heap, root[lastTree], Fuel(heap)) = Height(heap, root[lastTree]) + 1

\* C26: executeNodeCase, after inserting 4, 2, 1, 3, 6, 5, returns the text
\* "Minimum value in BST is " followed by the minimum key: "Minimum value
\* in BST is 1".
C26_DemoText ==
  lastOp = "executeNodeCase" =>
    /\ ret = StrV("Minimum value in BST is 1")
    /\ ret = StrV("Minimum value in BST is " \o ToJSString(min(heap, root[lastTree]).ret))

\* the links of the nodes of h that differ in h2
ChangedLinks(h, h2) ==
  {<<p, "left">> : p \in {q \in 1..Len(h) : h2[q].left # h[q].left}}
    \cup {<<p, "right">> : p \in {q \in 1..Len(h) : h2[q].right # h[q].right}}

\* C27: insert on a non-empty tree fills one empty slot: every link that
\* existed still points to the same node, the new node is a leaf, and the
\* one link that changed is the empty slot at the end of the search path
\* of the key.
C27_InsertFillsOneSlot ==
  [][(InsertStep /\ root[lastTree'] # Null) =>
       LET t == lastTree'
           key == inserted'[t][Len(inserted'[t])]
           new == Len(heap')
       IN /\ Len(heap') = Len(heap) + 1
          /\ heap'[new] = [left |-> Null, right |-> Null, data |-> key]
          /\ \A p \in 1..Len(heap) :
               /\ heap[p].left # Null => heap'[p].left = heap[p].left
               /\ heap[p].right # Null => heap'[p].right = heap[p].right
          /\ Cardinality(ChangedLinks(heap, heap')) = 1
          /\ \A l \in ChangedLinks(heap, heap') :
               LET p == l[1]
               IN /\ p \in Subtree(heap, root[t])
                  /\ IF l[2] = "left"
                     THEN heap[p].left = Null /\ heap'[p].left = new /\ key <= heap[p].data
                     ELSE heap[p].right = Null /\ heap'[p].right = new /\ key > heap[p].data
                  /\ \A a \in Subtree(heap, root[t]) :
                       /\ p \in Subtree(heap, heap[a].left) => key <= heap[a].data
                       /\ p \in Subtree(heap, heap[a].right) => key > heap[a].data]_vars

C27_Witness ==
  /\ lastOp = "insert"
  /\ Len(heap) = MaxNodes
  /\ \E p \in Refs :
       /\ p # root[lastTree]
       /\ heap[p].left = Len(heap)
       /\ heap[p].right # Null
  /\ heap[root[lastTree]].left # Null
  /\ heap[root[lastTree]].right # Null

\* C28: the operations agree on which roots are empty: for a root that
\* insert and count take for an empty tree (null or undefined), min returns
\* the empty result and raises no fault.
C28_EmptyRootsAgree ==
  (lastOp = "min" /\ count(heap, root[lastTree]).ret = 0) =>
    (ret = NullV /\ fault = "none")

\* the shape and keys of the tree under n, without the identity of its nodes
RECURSIVE ShapeOf(_, _)
ShapeOf(h, n) ==
  IF n \notin 1..Len(h)
  THEN <<>>
  ELSE <<h[n].data, ShapeOf(h, h[n].left), ShapeOf(h, h[n].right)>>

\* the heap and root after inserting the keys of s, in order, from the
\* empty root
RECURSIVE Rebuild(_)
Rebuild(s) ==
  IF s = <<>>
  THEN [heap |-> <<>>, ret |-> Null]
  ELSE LET b == Rebuild(SubSeq(s, 1, Len(s) - 1))
       IN insert(b.heap, b.ret, s[Len(s)])

\* C29: pre-order round trip: inserting the keys that preOrder wrote, in
\* that order, into an empty root rebuilds a tree of the same shape with
\* the same key at every place.
C29_PreOrderRoundTrip ==
  lastOp = "preOrder" =>
    LET b == Rebuild(out)
    IN ShapeOf(b.heap, b.ret) = ShapeOf(heap, root[lastTree])

C29_Witness ==
  /\ lastOp = "preOrder"
  /\ Len(out) >= 4
  /\ HasDuplicate(out)
  /\ out # inserted[lastTree]
  /\ heap[root[lastTree]].left # Null
  /\ heap[root[lastTree]].right # Null

\* C30: min and count are read-only: a call of either leaves the data, the
\* left link and the right link of every node and the caller's root as
\* they were, so a later query returns what it would have returned before.
C30_QueriesReadOnly ==
  [][lastOp' \in {"min", "count"} =>
       /\ heap' = heap
       /\ root' = root
       /\ \A t \in Trees :
            /\ min(heap', root'[t]).ret = min(heap, root[t]).ret
            /\ count(heap', root'[t]).ret = count(heap, root[t]).ret]_vars

C30_Witness ==
  /\ lastOp = "min"
  /\ Len(heap) >= 4
  /\ heap[root[lastTree]].left # Null
  /\ heap[heap[root[lastTree]].left].left # Null
  /\ heap[root[lastTree]].right # Null
  /\ count(heap, root[lastTree]).ret = Len(heap)

====
